---- MODULE Spec2Model ----
(***************************************************************************)
(* A model of the calendar grid renderer of src/web/main.ts (the           *)
(* CalendarRenderer with the sweep-line lane allocator, lines 278-641).    *)
(*                                                                         *)
(* Dates are whole day numbers counted from January 1 of the target year   *)
(* (day 0).  A raw endpoint (EventData.startAt / endAt) is a record        *)
(*   [day, hour, off, t]                                                   *)
(* standing for the ISO-8601 text: t says whether the text carries a       *)
(* time-of-day component ("T"), hour is the written hour and off the       *)
(* written UTC offset in hours (0 stands for "Z").  Titles are ranks in    *)
(* the collation order of the title texts.                                 *)
(* HTML text is abstracted to records: a day cell and a spanning segment.  *)
(***************************************************************************)
EXTENDS Integers, Sequences, FiniteSets, TLC

VARIABLES
    year,            \* constructor argument
    tz,              \* UTC offset (hours) of Temporal.Now.timeZoneId()
    data,            \* CalendarData.events: sequence of raw records
    pc,              \* position of the render pass
    calendarStart,   \* day number of the first grid day
    calendarDays,    \* number of grid days
    normal,          \* renderVariables: stack of non-spanning timed events
    multi,           \* renderVariables: spanning events
    arena,           \* all MultiEventEdge objects, in creation order
    edges,           \* the edges array (indices into arena)
    swept,           \* number of edges placeMultiEdges has handled
    places,          \* placeMultiEdges: sparse array of occupied lanes
    place,           \* edge.place of every edge of the arena (NoPlace = unset)
    allocatedSpace,  \* placeMultiEdges: sparse array ordinal -> reserved space
    content,         \* the rendered fragments, in output order
    failedAsserts,   \* console.assert calls that failed (they only log)
    pass,            \* number of the render pass of this renderer
    firstOutcome,    \* how the first pass ended and what it returned
    sortOutcome      \* Array.prototype.sort of this build: input -> outcome

vars == << year, tz, data, pc, calendarStart, calendarDays, normal, multi,
           arena, edges, swept, places, place, allocatedSpace, content,
           failedAsserts, pass, firstOutcome,
           sortOutcome >>

(***************************************************************************)
(* Bounds of the model.                                                    *)
(***************************************************************************)
MaxEvents == 3
MinYear == 2016
MaxYear == 2030
MaxPasses == 2

\* The year the command-line entry point renders.
MainYear == 2025

NoPlace == -1

(***************************************************************************)
(* JavaScript arithmetic.                                                  *)
(***************************************************************************)
\* a % b of JavaScript: the remainder takes the sign of the dividend.
JsRem(a, b) == IF a >= 0 THEN a % b ELSE -((-a) % b)

\* Math.floor(a / b) for b > 0.
Floor(a, b) == a \div b

Sign(x) == IF x < 0 THEN -1 ELSE IF x > 0 THEN 1 ELSE 0

(***************************************************************************)
(* Temporal.PlainDate of the Gregorian calendar.                           *)
(***************************************************************************)
IsLeap(y) == (y % 4 = 0 /\ y % 100 # 0) \/ y % 400 = 0

\* Day number of December 31 of year y.
Dec31(y) == IF IsLeap(y) THEN 365 ELSE 364

\* Weekday of January 1 of year y, 0 = Sunday .. 6 = Saturday.
Jan1Weekday(y) ==
    (1 + 5 * ((y - 1) % 4) + 4 * ((y - 1) % 100) + 6 * ((y - 1) % 400)) % 7

\* PlainDate.dayOfWeek of day number d of year y: 1 = Monday .. 7 = Sunday.
dayOfWeek(y, d) ==
    LET w == (Jan1Weekday(y) + d) % 7 IN IF w = 0 THEN 7 ELSE w

(***************************************************************************)
(* CalendarRenderer.constructor                                            *)
(***************************************************************************)
CalendarStartOf(y) == 0 - dayOfWeek(y, 0)

InclusiveEndOf(y) == Dec31(y) + (6 - dayOfWeek(y, Dec31(y)))

CalendarDaysOf(y) == (InclusiveEndOf(y) - CalendarStartOf(y)) + 1

gridOrd(date) == date - calendarStart

gridRow(ord) == Floor(ord, 7) + 2

gridCol(ord) == JsRem(ord, 7) + 1

(***************************************************************************)
(* Raw records and the Event classes.  An event is named by its index in   *)
(* data; a DateEvent is a record without time components, a DateTimeEvent  *)
(* one with them.                                                          *)
(***************************************************************************)
\* eventData.startAt.includes("T")
hasTime(i) == data[i].startAt.t

\* The collation rank of the written UTC offset: "-05:00" sorts before "Z".
OffsetRank(off) == IF off < 0 THEN 0 ELSE 1

\* String.localeCompare of two endpoint texts, as -1, 0 or 1.  The date
\* text sorts as the day number, a date-only text is a proper prefix of a
\* date-time text of the same day, then the hour and the offset text decide.
localeCompare(a, b) ==
    IF a.day # b.day THEN Sign(a.day - b.day)
    ELSE IF a.t # b.t THEN (IF b.t THEN -1 ELSE 1)
    ELSE IF ~a.t THEN 0
    ELSE IF a.hour # b.hour THEN Sign(a.hour - b.hour)
    ELSE Sign(OffsetRank(a.off) - OffsetRank(b.off))

\* Event.compare of the events i and j.
compare(i, j) ==
    LET rc1 == localeCompare(data[i].startAt, data[j].startAt)
        rc2 == 0 - localeCompare(data[i].endAt, data[j].endAt)
    IN  IF rc1 # 0 THEN rc1
        ELSE IF rc2 # 0 THEN rc2
        ELSE Sign(data[i].title - data[j].title)

\* localDateTime: the instant of an endpoint text in the local time zone,
\* in hours since 00:00 local time of day 0.
localDateTime(ep) == ep.day * 24 + ep.hour - ep.off + tz

\* ZonedDateTime.toPlainDate
toPlainDate(h) == Floor(h, 24)

\* Event.startDate / Event.endDate of DateEvent and DateTimeEvent.
startDate(i) ==
    IF hasTime(i) THEN toPlainDate(localDateTime(data[i].startAt))
    ELSE data[i].startAt.day

endDate(i) ==
    IF hasTime(i) THEN toPlainDate(localDateTime(data[i].endAt))
    ELSE data[i].endAt.day

\* DateEvent.multiLength
DateMultiLength(i) == endDate(i) - startDate(i)

\* DateTimeEvent.multiLength
DateTimeMultiLength(i) ==
    IF startDate(i) = endDate(i) THEN 0
    ELSE toPlainDate(localDateTime(data[i].endAt) + 12) - startDate(i)

multiLength(i) ==
    IF hasTime(i) THEN DateTimeMultiLength(i) ELSE DateMultiLength(i)

(***************************************************************************)
(* renderVariables, lines 580-594: the classification loop.                *)
(***************************************************************************)
\* A variant without the check.
NoMismatch(i) == FALSE

\* The record's endpoints disagree on carrying a time component.
Mismatch(i) == data[i].endAt.t # data[i].startAt.t

\* The queue record i is pushed on.
GoesToMulti(i) == IF hasTime(i) THEN multiLength(i) > 0 ELSE TRUE

RECURSIVE ClassifyLoop(_, _, _)
ClassifyLoop(i, n, m) ==
    IF i > Len(data) THEN [threw |-> FALSE, normal |-> n, multi |-> m]
    ELSE IF Mismatch(i) THEN [threw |-> TRUE, normal |-> n, multi |-> m]
    ELSE IF GoesToMulti(i) THEN ClassifyLoop(i + 1, n, Append(m, i))
    ELSE ClassifyLoop(i + 1, Append(n, i), m)

(***************************************************************************)
(* decomposeMultiEdges.  An edge is a record of the arena; prev = 0 is     *)
(* null, otherwise the arena index of the edge that opened the segment.    *)
(***************************************************************************)
Edge(g, e, p, d) == [gridOrd |-> g, event |-> e, prev |-> p, definite |-> d]

\* A variant that takes the boundary a week after the start, unaligned.
FollowingSundayUnaligned(start) == start + 7

FollowingSunday(start) == start - JsRem(start, 7) + 7

RECURSIVE WeekLoop(_, _, _, _, _)
WeekLoop(acc, prev, g, end, event) ==
    IF g < end
    THEN LET a1 == Append(acc, Edge(g, event, prev, FALSE))
             a2 == Append(a1, Edge(g, event, 0, FALSE))
         IN  WeekLoop(a2, Len(a2), g + 7, end, event)
    ELSE [edges |-> acc, prev |-> prev]

DecomposeEvent(acc, event) ==
    LET start == gridOrd(startDate(event))
        a1 == Append(acc, Edge(start, event, 0, TRUE))
        end == start + multiLength(event)
        w == WeekLoop(a1, Len(a1), FollowingSunday(start), end, event)
    IN  Append(w.edges, Edge(end, event, w.prev, TRUE))

RECURSIVE decomposeMultiEdges(_, _)
decomposeMultiEdges(events, acc) ==
    IF events = << >> THEN acc
    ELSE decomposeMultiEdges(Tail(events), DecomposeEvent(acc, Head(events)))

(***************************************************************************)
(* compareMultiEdge and edges.sort.  The arguments are arena indices.      *)
(* a.prev != b.prev compares object identities: two open edges have null   *)
(* on both sides, two distinct close edges never have the same prev.       *)
(***************************************************************************)
\* A variant that puts open edges before close edges of the same ordinal.
compareOpenFirst(a, b) ==
    LET A == arena[a]
        B == arena[b]
    IN  IF A.gridOrd # B.gridOrd THEN (IF A.gridOrd < B.gridOrd THEN -1 ELSE 1)
        ELSE IF A.prev # B.prev THEN (IF A.prev # 0 THEN 1 ELSE -1)
        ELSE IF A.definite # B.definite THEN (IF ~A.definite THEN -1 ELSE 1)
        ELSE compare(A.event, B.event)

\* A variant that puts definite edges before indefinite ones.
compareDefiniteFirst(a, b) ==
    LET A == arena[a]
        B == arena[b]
    IN  IF A.gridOrd # B.gridOrd THEN (IF A.gridOrd < B.gridOrd THEN -1 ELSE 1)
        ELSE IF A.prev # B.prev THEN (IF A.prev # 0 THEN -1 ELSE 1)
        ELSE IF A.definite # B.definite THEN (IF A.definite THEN -1 ELSE 1)
        ELSE compare(A.event, B.event)

compareMultiEdge(a, b) ==
    LET A == arena[a]
        B == arena[b]
    IN  IF A.gridOrd # B.gridOrd THEN (IF A.gridOrd < B.gridOrd THEN -1 ELSE 1)
        ELSE IF A.prev # B.prev THEN (IF A.prev # 0 THEN -1 ELSE 1)
        ELSE IF A.definite # B.definite THEN (IF ~A.definite THEN -1 ELSE 1)
        ELSE compare(A.event, B.event)

\* Array.prototype.sort puts a before b when the comparator orders the pair
\* consistently, and keeps the input order of a pair it reports equal (the
\* sort is stable).  A pair the comparator orders inconsistently (negative
\* both ways) may come out either way.
MustPrecede(a, b) ==
    \/ compareMultiEdge(a, b) < 0 /\ compareMultiEdge(b, a) > 0
    \/ compareMultiEdge(a, b) = 0 /\ compareMultiEdge(b, a) = 0 /\ a < b

RECURSIVE SortResults(_)
SortResults(S) ==
    IF S = {} THEN { << >> }
    ELSE UNION { { << m >> \o r : r \in SortResults(S \ {m}) } :
                 m \in { x \in S : \A y \in S \ {x} : ~MustPrecede(y, x) } }

(***************************************************************************)
(* placeMultiEdges.  places is a sequence of BOOLEAN: places[p + 1] says   *)
(* whether lane p is occupied, FALSE is a hole, Len is places.length.      *)
(***************************************************************************)
RECURSIVE FirstFree(_, _)
FirstFree(ps, p) ==
    IF p < Len(ps) /\ ps[p + 1] THEN FirstFree(ps, p + 1) ELSE p

\* A variant that never skips an occupied lane.
FirstPlaceUnchecked(ps) == 0

\* let place = 0; while (place < places.length && places[place] != null) place++
FirstFreePlace(ps) == FirstFree(ps, 0)

\* places[place] = true
SetPlace(ps, p) ==
    IF p < Len(ps) THEN [ps EXCEPT ![p + 1] = TRUE] ELSE Append(ps, TRUE)

\* delete places[p]
DeletePlace(ps, p) ==
    IF p < Len(ps) THEN [ps EXCEPT ![p + 1] = FALSE] ELSE ps

\* A variant that never shrinks the array.
KeepTrailing(ps) == ps

\* while (places.length > 0 && places.at(-1) == null) places.pop()
RECURSIVE PopTrailing(_)
PopTrailing(ps) ==
    IF Len(ps) > 0 /\ ~ps[Len(ps)] THEN PopTrailing(SubSeq(ps, 1, Len(ps) - 1))
    ELSE ps

\* allocatedSpace[gridOrd] = n
Record(space, g, n) ==
    [x \in DOMAIN space \cup {g} |-> IF x = g THEN n ELSE space[x]]

(***************************************************************************)
(* renderDay and the day loop of renderVariables (lines 603-609).  A day   *)
(* cell is kept in content only when its inner content list is not empty   *)
(* (a spacer or at least one event); every other grid day has an empty     *)
(* cell.  The text label of the cell is not modelled.                      *)
(***************************************************************************)
\* normal.sort((a, b) => b.compare(a)): descending, equal events keep their
\* input order.
RECURSIVE InsertDesc(_, _)
InsertDesc(sorted, x) ==
    IF sorted = << >> THEN << x >>
    ELSE IF compare(x, Head(sorted)) <= 0
         THEN << Head(sorted) >> \o InsertDesc(Tail(sorted), x)
         ELSE << x >> \o sorted

RECURSIVE SortNormal(_, _)
SortNormal(rest, sorted) ==
    IF rest = << >> THEN sorted
    ELSE SortNormal(Tail(rest), InsertDesc(sorted, Head(rest)))

\* while (stack.at(-1)?.startDate?.equals(date)) stack.pop()
RECURSIVE PopDay(_, _, _)
PopDay(stack, date, popped) ==
    IF Len(stack) > 0 /\ startDate(stack[Len(stack)]) = date
    THEN PopDay(SubSeq(stack, 1, Len(stack) - 1), date,
                Append(popped, stack[Len(stack)]))
    ELSE [stack |-> stack, events |-> popped]

DayCell(ord, space, events) ==
    [kind |-> "day", ord |-> ord, row |-> gridRow(ord), col |-> gridCol(ord),
     space |-> space, events |-> events]

\* A variant that does not carry the reserved space forward.
DayStepNoCarry(i, st) ==
    LET sp == IF i \in DOMAIN allocatedSpace THEN allocatedSpace[i] ELSE 0
        r == PopDay(st.stack, calendarStart + i, << >>)
    IN  [stack |-> r.stack, space |-> sp,
         cells |-> IF sp > 0 \/ r.events # << >>
                   THEN Append(st.cells, DayCell(i, sp, r.events))
                   ELSE st.cells]

\* One iteration of the day loop: the body of the for statement.
DayStep(i, st) ==
    LET sp == IF i \in DOMAIN allocatedSpace THEN allocatedSpace[i]
              ELSE st.space
        r == PopDay(st.stack, calendarStart + i, << >>)
    IN  [stack |-> r.stack, space |-> sp,
         cells |-> IF sp > 0 \/ r.events # << >>
                   THEN Append(st.cells, DayCell(i, sp, r.events))
                   ELSE st.cells]

\* No iteration of lo..hi changes st: no spacer is in effect, no reserved
\* space is recorded for a day of the range, and the top of the stack does
\* not start on one.
Idle(lo, hi, st) ==
    /\ st.space = 0
    /\ \A g \in DOMAIN allocatedSpace : g < lo \/ g > hi
    /\ \/ st.stack = << >>
       \/ LET d == gridOrd(startDate(st.stack[Len(st.stack)]))
          IN  d < lo \/ d > hi

\* for (let i = lo; i <= hi; i++), the iterations in increasing order.  The
\* range is halved to keep the evaluation shallow, and a range of idle
\* iterations is passed over.
RECURSIVE DayLoop(_, _, _)
DayLoop(lo, hi, st) ==
    IF lo > hi THEN st
    ELSE IF Idle(lo, hi, st) THEN st
    ELSE IF lo = hi THEN DayStep(lo, st)
    ELSE LET mid == (lo + hi) \div 2
             first == DayLoop(lo, mid, st)
         IN  IF first.space >= 0 THEN DayLoop(mid + 1, hi, first) ELSE first

(***************************************************************************)
(* renderMultiEdge and the edge loop of renderVariables (lines 611-614).   *)
(* An open edge renders the empty string, which leaves no fragment.        *)
(***************************************************************************)
\* A variant that takes the column of the close edge itself.
SegmentToClose(e) ==
    LET edge == arena[e]
        prev == arena[edge.prev]
    IN  [kind |-> "multi", event |-> edge.event,
         row |-> gridRow(prev.gridOrd),
         left |-> gridCol(prev.gridOrd),
         right |-> gridCol(edge.gridOrd) + 1,
         place |-> place[edge.prev],
         indefiniteStart |-> ~prev.definite,
         indefiniteEnd |-> ~edge.definite]

Segment(e) ==
    LET edge == arena[e]
        prev == arena[edge.prev]
        inclusiveEnd == edge.gridOrd - 1
    IN  [kind |-> "multi", event |-> edge.event,
         row |-> gridRow(prev.gridOrd),
         left |-> gridCol(prev.gridOrd),
         right |-> gridCol(inclusiveEnd) + 1,
         place |-> place[edge.prev],
         indefiniteStart |-> ~prev.definite,
         indefiniteEnd |-> ~edge.definite]

\* The console.assert calls of renderMultiEdge that fail on the close edge e.
SegmentAsserts(e) ==
    LET edge == arena[e]
        prev == arena[edge.prev]
    IN  (IF place[edge.prev] = NoPlace THEN {"prev.place"} ELSE {})
        \cup (IF gridRow(prev.gridOrd) # gridRow(edge.gridOrd - 1)
              THEN {"row"} ELSE {})

RECURSIVE MultiLoop(_, _)
MultiLoop(k, out) ==
    IF k > Len(edges) THEN out
    ELSE IF arena[edges[k]].prev = 0 THEN MultiLoop(k + 1, out)
    ELSE MultiLoop(k + 1, Append(out, Segment(edges[k])))

(***************************************************************************)
(* Inputs.                                                                 *)
(***************************************************************************)
DateText(d) == [day |-> d, hour |-> 0, off |-> 0, t |-> FALSE]

TimeText(d, h, o) == [day |-> d, hour |-> h, off |-> o, t |-> TRUE]

\* The text of the instant dur hours after the one written d, h, o, with
\* the same offset.
Later(d, h, o, dur) == TimeText(d + Floor(h + dur, 24), (h + dur) % 24, o)

DateRecord(title, d, len) ==
    [title |-> title, startAt |-> DateText(d), endAt |-> DateText(d + len)]

TimeRecord(title, d, h, o, dur) ==
    [title |-> title, startAt |-> TimeText(d, h, o),
     endAt |-> Later(d, h, o, dur)]

\* A record with a date-only startAt and a timestamped endAt.
BadRecord(title, d) ==
    [title |-> title, startAt |-> DateText(d), endAt |-> TimeText(d, 22, 0)]

\* Date-only events around the first week boundaries of the grid of
\* MainYear (day 2 is grid ordinal 5, day 4 is ordinal 7, a Sunday): within
\* a week, up to and across a week boundary, a full grid week, an empty
\* range, a range later in the week, two events that differ in the title
\* only, and one timed event that ends past noon of the next day.
SpanRanges ==
    { << 2, 3 >>, << 2, 10 >>, << 4, 0 >>, << 4, 2 >>, << 4, 7 >>,
      << 5, 2 >>, << 7, 2 >> }
SpanRecords ==
    { DateRecord(1, r[1], r[2]) : r \in SpanRanges }
    \cup { DateRecord(2, 4, 2), TimeRecord(1, 4, 22, 0, 17) }

\* Timed events of one evening, written with two offsets and ending the
\* same day, before noon and after noon of the next day; one timed and one
\* date-only event before the first grid day; a malformed record.
TimeZones == {-5, 0}
Offsets == {-5, 0}
Durations == {1, 6, 17}
DayRecords ==
    { TimeRecord(1, 4, 22, o, dur) : o \in Offsets, dur \in Durations }
    \cup { TimeRecord(1, -4, 22, 0, 1), DateRecord(1, 4, 2),
           DateRecord(1, -5, 4), BadRecord(1, 4) }

\* Spanning events that share week boundaries and closing days, an empty
\* range, timed events of one evening written with two offsets, and a
\* malformed record.
TwiceRecords ==
    { DateRecord(1, 2, 10), DateRecord(1, 4, 0), DateRecord(1, 4, 2),
      DateRecord(2, 4, 2), DateRecord(1, 4, 7), BadRecord(1, 4) }
    \cup { TimeRecord(1, 4, 22, o, 1) : o \in Offsets }

\* One date-only event over December 30 and 31 and one timed event in the
\* evening of December 31 of year y.
GridData(y) ==
    << DateRecord(1, Dec31(y) - 1, 2), TimeRecord(1, Dec31(y), 20, 0, 1) >>

Lists(S) == UNION { [1..n -> S] : n \in 0..MaxEvents }

\* The lists of pairwise different records.
DistinctLists(S) ==
    { l \in Lists(S) : \A j, k \in 1..Len(l) : j # k => l[j] # l[k] }

(***************************************************************************)
(* The render pass.                                                        *)
(***************************************************************************)
\* What a pass hands to its caller: the error, or the content.
Outcome == [threw |-> pc = "threw", content |-> content]

NoOutcome == [threw |-> FALSE, content |-> << >>]

Fresh ==
    /\ pc = "new"
    /\ calendarStart = 0
    /\ calendarDays = 0
    /\ normal = << >>
    /\ multi = << >>
    /\ arena = << >>
    /\ edges = << >>
    /\ swept = 0
    /\ places = << >>
    /\ place = << >>
    /\ allocatedSpace = [x \in {} |-> 0]
    /\ content = << >>
    /\ failedAsserts = {}
    /\ pass = 1
    /\ firstOutcome = NoOutcome
    /\ sortOutcome = << >>

Init ==
    /\ year = MainYear
    /\ tz = 0
    /\ data \in DistinctLists(SpanRecords)
    /\ Fresh

InitDay ==
    /\ year = MainYear
    /\ tz \in TimeZones
    /\ data \in Lists(DayRecords)
    /\ Fresh

InitTwice ==
    /\ year = MainYear
    /\ tz \in TimeZones
    /\ data \in DistinctLists(TwiceRecords)
    /\ Fresh

InitGrid ==
    /\ year \in MinYear..MaxYear
    /\ tz = 0
    /\ data = GridData(year)
    /\ Fresh

\* new CalendarRenderer(year)
Construct ==
    /\ pc = "new"
    /\ UNCHANGED << pass, firstOutcome, sortOutcome >>
    /\ calendarStart' = CalendarStartOf(year)
    /\ calendarDays' = CalendarDaysOf(year)
    /\ pc' = "classify"
    /\ UNCHANGED << year, tz, data, normal, multi, arena, edges, swept,
                    places, place, allocatedSpace, content, failedAsserts >>

\* renderVariables, lines 580-594.  A mismatching record throws out of
\* renderVariables: the pass ends and its locals are gone.
Classify ==
    /\ pc = "classify"
    /\ UNCHANGED << pass, firstOutcome, sortOutcome >>
    /\ LET r == ClassifyLoop(1, << >>, << >>)
       IN  IF r.threw
           THEN /\ pc' = "threw"
                /\ UNCHANGED << normal, multi >>
           ELSE /\ pc' = "decompose"
                /\ normal' = r.normal
                /\ multi' = r.multi
    /\ UNCHANGED << year, tz, data, calendarStart, calendarDays, arena, edges,
                    swept, places, place, allocatedSpace, content,
                    failedAsserts >>

\* renderVariables, line 598.
Decompose ==
    /\ pc = "decompose"
    /\ UNCHANGED << pass, firstOutcome, sortOutcome >>
    /\ arena' = decomposeMultiEdges(multi, << >>)
    /\ edges' = [k \in 1..Len(arena') |-> k]
    /\ place' = [k \in 1..Len(arena') |-> NoPlace]
    /\ pc' = "sort"
    /\ UNCHANGED << year, tz, data, calendarStart, calendarDays, normal, multi,
                    swept, places, allocatedSpace, content, failedAsserts >>

\* renderVariables, line 599.  The order of a pair the comparator orders
\* inconsistently is left to the implementation of Array.prototype.sort,
\* which is a function of its input on one build: any permitted order the
\* first time an array is sorted, the same order every time after.
Sort ==
    /\ pc = "sort"
    /\ IF arena \in DOMAIN sortOutcome
       THEN /\ edges' = sortOutcome[arena]
            /\ UNCHANGED sortOutcome
       ELSE /\ edges' \in SortResults(1..Len(arena))
            /\ sortOutcome' = sortOutcome @@ (arena :> edges')
    /\ UNCHANGED << pass, firstOutcome >>
    /\ pc' = IF Len(arena) = 0 THEN "days" ELSE "place"
    /\ UNCHANGED << year, tz, data, calendarStart, calendarDays, normal, multi,
                    arena, swept, places, place, allocatedSpace, content,
                    failedAsserts >>

\* One iteration of the loop of placeMultiEdges.
Place ==
    /\ pc = "place"
    /\ UNCHANGED << pass, firstOutcome, sortOutcome >>
    /\ LET e == edges[swept + 1]
           edge == arena[e]
       IN  IF edge.prev = 0
           THEN LET p == FirstFreePlace(places)
                    ps == SetPlace(places, p)
                IN  /\ places' = ps
                    /\ place' = [place EXCEPT ![e] = p]
                    /\ allocatedSpace' =
                           Record(allocatedSpace, edge.gridOrd, Len(ps))
                    /\ UNCHANGED failedAsserts
           ELSE IF place[edge.prev] # NoPlace
           THEN LET p == place[edge.prev]
                    ps == PopTrailing(DeletePlace(places, p))
                IN  /\ failedAsserts' =
                           IF p < Len(places) /\ places[p + 1]
                           THEN failedAsserts
                           ELSE failedAsserts \cup {"places"}
                    /\ places' = ps
                    /\ allocatedSpace' =
                           Record(allocatedSpace, edge.gridOrd, Len(ps))
                    /\ UNCHANGED place
           ELSE UNCHANGED << places, place, allocatedSpace, failedAsserts >>
    /\ swept' = swept + 1
    /\ pc' = IF swept + 1 = Len(edges) THEN "days" ELSE "place"
    /\ UNCHANGED << year, tz, data, calendarStart, calendarDays, normal, multi,
                    arena, edges, content >>

\* renderVariables, lines 603-609.
RenderDays ==
    /\ pc = "days"
    /\ UNCHANGED << pass, firstOutcome, sortOutcome >>
    /\ LET r == DayLoop(0, calendarDays - 1,
                         [stack |-> SortNormal(normal, << >>), space |-> 0,
                          cells |-> << >>])
       IN  /\ normal' = r.stack
           /\ content' = r.cells
    /\ pc' = "multi"
    /\ UNCHANGED << year, tz, data, calendarStart, calendarDays, multi, arena,
                    edges, swept, places, place, allocatedSpace,
                    failedAsserts >>

\* renderVariables, lines 611-620.
RenderMulti ==
    /\ pc = "multi"
    /\ UNCHANGED << pass, firstOutcome, sortOutcome >>
    /\ content' = MultiLoop(1, content)
    /\ failedAsserts' = failedAsserts \cup
           UNION { SegmentAsserts(edges[k]) :
                   k \in { j \in 1..Len(edges) : arena[edges[j]].prev # 0 } }
    /\ pc' = "done"
    /\ UNCHANGED << year, tz, data, calendarStart, calendarDays, normal, multi,
                    arena, edges, swept, places, place, allocatedSpace >>

\* The places array of a call of placeMultiEdges, as the call starts.
LeftPlaces == places

NewPlaces == << >>

\* render() is called again on the same renderer with the same data: the
\* locals of the call before are gone, the renderer's fields stay.
RenderAgain ==
    /\ pc \in {"done", "threw"}
    /\ pass < MaxPasses
    /\ pass' = pass + 1
    /\ firstOutcome' = IF pass = 1 THEN Outcome ELSE firstOutcome
    /\ pc' = "classify"
    /\ normal' = << >>
    /\ multi' = << >>
    /\ arena' = << >>
    /\ edges' = << >>
    /\ swept' = 0
    /\ places' = NewPlaces
    /\ place' = << >>
    /\ allocatedSpace' = [x \in {} |-> 0]
    /\ content' = << >>
    /\ UNCHANGED << year, tz, data, calendarStart, calendarDays,
                    failedAsserts, sortOutcome >>

Next ==
    \/ Construct
    \/ Classify
    \/ Decompose
    \/ Sort
    \/ Place
    \/ RenderDays
    \/ RenderMulti

Spec == Init /\ [][Next]_vars

SpecDay == InitDay /\ [][Next]_vars

SpecGrid == InitGrid /\ [][Next]_vars

NextTwice ==
    \/ Construct
    \/ Classify
    \/ Decompose
    \/ Sort
    \/ Place
    \/ RenderDays
    \/ RenderMulti
    \/ RenderAgain

SpecTwice == InitTwice /\ [][NextTwice]_vars

(***************************************************************************)
(* Vocabulary of the properties.                                           *)
(***************************************************************************)
Range(seq) == { seq[k] : k \in 1..Len(seq) }

\* A row segment is named by its close edge.
Closes == { c \in 1..Len(arena) : arena[c].prev # 0 }

Opens == { o \in 1..Len(arena) : arena[o].prev = 0 }

OpenOrd(c) == arena[arena[c].prev].gridOrd

CloseOrd(c) == arena[c].gridOrd

Lane(c) == place[arena[c].prev]

\* The segments whose [open, close) range contains the ordinal g.
Covering(g) == { c \in Closes : OpenOrd(c) <= g /\ g < CloseOrd(c) }

Overlap(g) == Cardinality(Covering(g))

\* Every event of the spanning set covers at least one day.
AllSpanning == \A i \in Range(multi) : multiLength(i) >= 1

\* The open edges that hold a lane: placed, and their close not yet swept.
Holding ==
    LET handled == IF pc \in {"place", "days", "multi", "done"}
                THEN { edges[k] : k \in 1..swept } ELSE {}
    IN  { arena[c].prev : c \in { x \in Closes \ handled :
                                      place[arena[x].prev] # NoPlace } }

\* The lanes that are occupied in the places array.
Occupied == { p \in 0..(Len(places) - 1) : places[p + 1] }

\* The sweep stands between two ordinals: every edge at the ordinal of the
\* last swept edge has been swept.
AtBoundary ==
    /\ pc \in {"place", "days", "multi", "done"}
    /\ swept > 0
    /\ \/ swept = Len(edges)
       \/ arena[edges[swept + 1]].gridOrd > arena[edges[swept]].gridOrd

LastOrd == arena[edges[swept]].gridOrd

(***************************************************************************)
(* C1: for spanning events that each cover at least one day, two row       *)
(* segments whose [open, close) ordinal ranges overlap never have the same *)
(* lane, and during the sweep no two open edges hold the same lane.        *)
(***************************************************************************)
C1_LanesDisjoint ==
    AllSpanning =>
        /\ \A c1, c2 \in Closes :
               ( /\ c1 # c2
                 /\ Lane(c1) # NoPlace
                 /\ Lane(c2) # NoPlace
                 /\ OpenOrd(c1) < CloseOrd(c2)
                 /\ OpenOrd(c2) < CloseOrd(c1) ) => Lane(c1) # Lane(c2)
        /\ \A o1, o2 \in Holding : o1 # o2 => place[o1] # place[o2]

\* Three events are placed, two segments overlap and have got lanes.
C1_Witness ==
    /\ pc = "done"
    /\ AllSpanning
    /\ Len(multi) = 3
    /\ \E c1, c2 \in Closes :
           /\ arena[c1].event # arena[c2].event
           /\ OpenOrd(c1) < CloseOrd(c2)
           /\ OpenOrd(c2) < CloseOrd(c1)
           /\ Lane(c1) = 0
           /\ Lane(c2) = 1

(***************************************************************************)
(* C2 as stated: when the sweep has handled every edge up to and including *)
(* an ordinal, the highest lane in use plus one (places.length) and the    *)
(* reserved space recorded for that ordinal equal the number of segments   *)
(* that overlap the ordinal.                                               *)
(***************************************************************************)
C2_SpaceEqualsOverlap ==
    (AllSpanning /\ AtBoundary) =>
        /\ Len(places) = Overlap(LastOrd)
        /\ LastOrd \in DOMAIN allocatedSpace
               => allocatedSpace[LastOrd] = Overlap(LastOrd)

(***************************************************************************)
(* C2 as amended: when the sweep has handled every edge up to and          *)
(* including an ordinal, the reserved space recorded for that ordinal is   *)
(* the highest occupied lane plus one (0 when no lane is occupied) and is  *)
(* never less than the number of segments that overlap the ordinal; the    *)
(* number of occupied lanes equals that number when every spanning event   *)
(* covers at least one day.                                                *)
(***************************************************************************)
C2_SpaceIsHighestLane ==
    AtBoundary =>
        /\ Len(places) = IF Occupied = {} THEN 0
                         ELSE 1 + CHOOSE p \in Occupied :
                                      \A q \in Occupied : q <= p
        /\ Len(places) >= Overlap(LastOrd)
        /\ LastOrd \in DOMAIN allocatedSpace
               => allocatedSpace[LastOrd] = Len(places)
        /\ AllSpanning => Cardinality(Occupied) = Overlap(LastOrd)

\* A segment on a lane below the highest occupied lane has closed: the
\* reserved space exceeds the number of overlapping segments.
C2_Witness ==
    /\ AtBoundary
    /\ AllSpanning
    /\ LastOrd \in DOMAIN allocatedSpace
    /\ allocatedSpace[LastOrd] = 2
    /\ Overlap(LastOrd) = 1
    /\ Occupied = {1}

(***************************************************************************)
(* C3: for spanning events that each cover at least one day, every lane    *)
(* below the lane of an open edge is held by another segment that overlaps *)
(* the edge's ordinal, and so the highest lane plus one never exceeds the  *)
(* largest number of segments that overlap at one ordinal.                 *)
(***************************************************************************)
MaxOverlap ==
    LET counts == { Overlap(arena[o].gridOrd) : o \in Opens } \cup {0}
    IN  CHOOSE n \in counts : \A m \in counts : m <= n

EdgesOf(i) == { k \in 1..Len(arena) : arena[k].event = i }

\* The j-th edge of the event i, in creation order.
NthEdge(i, j) ==
    CHOOSE k \in EdgesOf(i) :
        Cardinality({ m \in EdgesOf(i) : m < k }) = j - 1

Tiled(i) ==
    LET s == gridOrd(startDate(i))
        L == multiLength(i)
        n == Cardinality(EdgesOf(i))
        E(j) == arena[NthEdge(i, j)]
        odd == { j \in 1..n : j % 2 = 1 }
        even == { j \in 1..n : j % 2 = 0 }
    IN  /\ n >= 2
        /\ n % 2 = 0
        /\ \A j \in odd : E(j).prev = 0
        /\ \A j \in even : E(j).prev = NthEdge(i, j - 1)
        /\ E(1).gridOrd = s
        /\ E(1).definite
        /\ E(n).gridOrd = s + L
        /\ E(n).definite
        /\ \A j \in 2..(n - 1) : ~E(j).definite
        /\ \A j \in even \ {n} :
               /\ NthEdge(i, j + 1) = NthEdge(i, j) + 1
               /\ E(j + 1).gridOrd = E(j).gridOrd
        /\ \A j \in odd :
               /\ E(j).gridOrd < E(j + 1).gridOrd
               /\ Floor(E(j).gridOrd, 7) = Floor(E(j + 1).gridOrd - 1, 7)
        /\ { E(j).gridOrd : j \in even \ {n} }
               = { g \in (s + 1)..(s + L - 1) : g % 7 = 0 }

C4_SegmentsTile ==
    pc = "sort" =>
        \A i \in Range(multi) :
            (gridOrd(startDate(i)) >= 0 /\ multiLength(i) >= 1) => Tiled(i)

\* One event is split at two week boundaries, another covers exactly one
\* full grid week and has just its two definite edges.
C4_Witness ==
    /\ pc = "sort"
    /\ \E i \in Range(multi) :
           /\ gridOrd(startDate(i)) >= 0
           /\ Cardinality(EdgesOf(i)) = 6
    /\ \E i \in Range(multi) :
           /\ gridOrd(startDate(i)) % 7 = 0
           /\ gridOrd(startDate(i)) >= 0
           /\ multiLength(i) = 7
           /\ Cardinality(EdgesOf(i)) = 2

(***************************************************************************)
(* C10.  The date-only event i begins and (exclusively) ends in one grid   *)
(* week of the grid, covers at least one day, and no other spanning event  *)
(* overlaps it.                                                            *)
(***************************************************************************)
AloneInWeek(i) ==
    LET s == gridOrd(data[i].startAt.day)
        e == gridOrd(data[i].endAt.day)
    IN  /\ ~data[i].startAt.t
        /\ 0 <= s
        /\ s < e
        /\ e < calendarDays
        /\ s \div 7 = e \div 7
        /\ AllSpanning
        /\ \A j \in Range(multi) \ {i} :
               LET sj == gridOrd(startDate(j))
               IN  ~(sj < e /\ s < sj + multiLength(j))

SegmentsOf(i) ==
    { k \in 1..Len(content) :
          content[k].kind = "multi" /\ content[k].event = i }

\* The event i is rendered as one segment at lane 0 without markers, over
\* the columns of the ordinals s to last.
OneSegment(i, s, last) ==
    /\ Cardinality(SegmentsOf(i)) = 1
    /\ \A k \in SegmentsOf(i) :
           /\ content[k].place = 0
           /\ content[k].row = (s \div 7) + 2
           /\ content[k].left = (s % 7) + 1
           /\ content[k].right - 1 = (last % 7) + 1
           /\ ~content[k].indefiniteStart
           /\ ~content[k].indefiniteEnd

(***************************************************************************)
(* C10 as stated: such an event is rendered as exactly one segment at lane *)
(* 0, without markers, whose columns run from the weekday of startAt       *)
(* through the weekday of endAt.                                           *)
(***************************************************************************)
C10_ThroughEndAt ==
    pc = "done" =>
        \A i \in 1..Len(data) :
            AloneInWeek(i) =>
                OneSegment(i, gridOrd(data[i].startAt.day),
                           gridOrd(data[i].endAt.day))

(***************************************************************************)
(* C10 as amended: such an event is rendered as exactly one segment at     *)
(* lane 0, without markers, whose columns run from the weekday of startAt  *)
(* through the weekday of the day before the exclusive endAt.              *)
(***************************************************************************)
C10_ThroughDayBeforeEndAt ==
    pc = "done" =>
        \A i \in 1..Len(data) :
            AloneInWeek(i) =>
                OneSegment(i, gridOrd(data[i].startAt.day),
                           gridOrd(data[i].endAt.day) - 1)

\* A date-only event over Monday and Tuesday (exclusive end Wednesday) is
\* rendered beside two other events that do not overlap it.
C10_Witness ==
    /\ pc = "done"
    /\ Len(multi) = 3
    /\ \E i \in 1..Len(data) :
           /\ AloneInWeek(i)
           /\ gridOrd(data[i].startAt.day) % 7 = 1
           /\ gridOrd(data[i].endAt.day) % 7 = 3
           /\ SegmentsOf(i) # {}

(***************************************************************************)
(* The day cells.                                                          *)
(***************************************************************************)
\* The timed events the classification loop puts on the stack.
Stacked == { i \in 1..Len(data) : data[i].startAt.t /\ multiLength(i) <= 0 }

InGrid(ord) == 0 <= ord /\ ord < calendarDays

\* The places << k, j >> of content where the event i is rendered in a day
\* cell.
CellsOf(i) ==
    { kj \in (1..Len(content)) \X (1..MaxEvents + 1) :
          /\ content[kj[1]].kind = "day"
          /\ kj[2] <= Len(content[kj[1]].events)
          /\ content[kj[1]].events[kj[2]] = i }

RenderedInOwnCell(i) ==
    /\ Cardinality(CellsOf(i)) = 1
    /\ \A kj \in CellsOf(i) : content[kj[1]].ord = gridOrd(startDate(i))

(***************************************************************************)
(* C5: when every non-spanning timed event starts on a grid day, the day   *)
(* loop renders each of them exactly once, in the cell of its start date,  *)
(* in ascending compare order within a cell, and leaves the stack empty.   *)
(***************************************************************************)
C5_StackDrains ==
    ( /\ pc \in {"multi", "done"}
      /\ \A i \in Stacked : InGrid(gridOrd(startDate(i))) ) =>
        /\ normal = << >>
        /\ \A i \in Stacked : RenderedInOwnCell(i)
        /\ \A k \in 1..Len(content) :
               content[k].kind = "day" =>
                   \A j1, j2 \in 1..Len(content[k].events) :
                       j1 < j2 => compare(content[k].events[j1],
                                          content[k].events[j2]) <= 0

(***************************************************************************)
(* C6: a render pass over a list with an event whose date is outside the   *)
(* grid does not complete as if nothing were wrong, and every event that   *)
(* starts on a grid day is rendered whatever else the list holds.          *)
(***************************************************************************)
C6_OutOfRangeSurfaced ==
    pc = "done" =>
        /\ \A i \in 1..Len(data) : InGrid(gridOrd(startDate(i)))
        /\ \A i \in Stacked :
               InGrid(gridOrd(startDate(i))) => RenderedInOwnCell(i)

(***************************************************************************)
(* C7: when a record of the list has endpoints that disagree on carrying a *)
(* time component, the pass ends in the error wherever the record stands,  *)
(* and no content is produced.                                             *)
(***************************************************************************)
C7_MismatchAborts ==
    (\E i \in 1..Len(data) : data[i].startAt.t # data[i].endAt.t) =>
        /\ pc \in {"new", "classify", "threw"}
        /\ content = << >>

\* The pass has thrown on a malformed record that stands last, behind a
\* spanning and a stacked event.
C7_Witness ==
    /\ pc = "threw"
    /\ Len(data) = 3
    /\ ~data[1].startAt.t /\ ~data[1].endAt.t
    /\ data[2].startAt.t /\ data[2].endAt.t
    /\ data[3].startAt.t # data[3].endAt.t

(***************************************************************************)
(* C8: calendarStart is the latest Sunday on or before January 1, the last *)
(* grid day is the earliest Saturday on or after December 31, calendarDays *)
(* is a multiple of 7, and every day of the year has a grid ordinal in     *)
(* [0, calendarDays).                                                      *)
(***************************************************************************)
C8_GridCoversYear ==
    pc # "new" =>
        LET w1 == Jan1Weekday(year)
            w31 == (w1 + Dec31(year)) % 7
        IN  /\ calendarStart = 0 - w1
            /\ calendarStart + calendarDays - 1 = Dec31(year) + (6 - w31)
            /\ calendarDays % 7 = 0
            /\ \A d \in 0..Dec31(year) : InGrid(gridOrd(d))

(***************************************************************************)
(* C9: a timed event is in the spanning set exactly if its rendered end    *)
(* date differs from its start date, where the rendered end date of an     *)
(* event that ends on a later day is the local end date when the end time  *)
(* is past noon and the day before otherwise, and multiLength() is the     *)
(* rendered end date minus the start date.                                 *)
(***************************************************************************)
RenderedEnd(i) ==
    IF endDate(i) = startDate(i) THEN endDate(i)
    ELSE IF localDateTime(data[i].endAt) % 24 >= 12 THEN endDate(i)
    ELSE endDate(i) - 1

C9_NoonRule ==
    pc \in {"decompose", "sort", "place"} =>
        \A i \in 1..Len(data) :
            data[i].startAt.t =>
                /\ (i \in Range(multi)) <=> (RenderedEnd(i) # startDate(i))
                /\ multiLength(i) = RenderedEnd(i) - startDate(i)

CanonicalBefore(a, b) ==
    LET A == arena[a]
        B == arena[b]
        closeA == A.prev # 0
        closeB == B.prev # 0
    IN  \/ A.gridOrd < B.gridOrd
        \/ /\ A.gridOrd = B.gridOrd
           /\ closeA /\ ~closeB
        \/ /\ A.gridOrd = B.gridOrd
           /\ closeA = closeB
           /\ ~A.definite /\ B.definite
        \/ /\ A.gridOrd = B.gridOrd
           /\ closeA = closeB
           /\ A.definite = B.definite
           /\ compare(A.event, B.event) < 0

C12_StrictTotalOrder ==
    pc = "sort" =>
        LET E == 1..Len(arena)
        IN  /\ \A a, b \in E :
                   a # b =>
                       /\ compareMultiEdge(a, b) # 0
                       /\ compareMultiEdge(a, b) < 0
                              => compareMultiEdge(b, a) > 0
                       /\ compareMultiEdge(a, b) < 0 <=> CanonicalBefore(a, b)
            /\ \A a, b, c \in E :
                   ( /\ compareMultiEdge(a, b) < 0
                     /\ compareMultiEdge(b, c) < 0 )
                       => compareMultiEdge(a, c) < 0

(***************************************************************************)
(* C13: the sweep never goes on past a close edge whose open edge holds no *)
(* occupied lane when the close is reached (the pass stops there with an   *)
(* error instead), and no lane is left occupied when a pass completes.     *)
(***************************************************************************)
\* The k-th edge of the sorted array is a close edge that the sweep has
\* reached while its open edge had no place: the open edge stands behind
\* it in the array.
ClosedUnplaced(k) ==
    /\ arena[edges[k]].prev # 0
    /\ \E j \in (k + 1)..Len(edges) : edges[j] = arena[edges[k]].prev

C13_UnplacedCloseStops ==
    /\ pc \in {"place", "days", "multi", "done"}
           => \A k \in 1..swept : ~ClosedUnplaced(k)
    /\ pc = "done" => places = << >>

(***************************************************************************)
(* C14: when every spanning event lies within the grid and covers at least *)
(* one day, the reserved space of the cell of every grid day is at least   *)
(* the lane plus one of every segment that covers the day, and it is 0 on  *)
(* every day that no segment covers.                                       *)
(***************************************************************************)
\* The reserved space renderDay was given for the grid day d.
SpaceOf(d) ==
    LET cells == { k \in 1..Len(content) :
                       content[k].kind = "day" /\ content[k].ord = d }
    IN  IF cells = {} THEN 0 ELSE content[CHOOSE k \in cells : TRUE].space

AllInRange ==
    \A i \in Range(multi) :
        /\ 0 <= gridOrd(startDate(i))
        /\ gridOrd(startDate(i)) + multiLength(i) <= calendarDays

C14_SpaceCoversLanes ==
    (pc = "multi" /\ AllSpanning /\ AllInRange) =>
        \A d \in 0..(calendarDays - 1) :
            LET over == Covering(d)
            IN  /\ \A c \in over : SpaceOf(d) >= Lane(c) + 1
                /\ over = {} => SpaceOf(d) = 0

\* Of three events one is left alone on lane 1 on a day, under a reserved
\* space of 2, and a later day is covered by no segment.
C14_Witness ==
    /\ pc = "multi"
    /\ AllSpanning
    /\ AllInRange
    /\ Len(multi) = 3
    /\ \E d \in 0..(calendarDays - 1) :
           /\ Cardinality(Covering(d)) = 1
           /\ \A c \in Covering(d) : Lane(c) = 1
           /\ SpaceOf(d) = 2
           /\ Covering(d + 2) = {}
           /\ SpaceOf(d + 2) = 0

(***************************************************************************)
(* C15: when every spanning event lies within the grid and covers at least *)
(* one day, no lane is occupied once the sweep has handled every close     *)
(* edge at a week-boundary ordinal (a multiple of 7); the n indefinite     *)
(* open edges at that ordinal then get the lanes 0..n-1 in ascending       *)
(* compare order of their events, and every definite open edge at that     *)
(* ordinal gets a lane of at least n.                                      *)
(***************************************************************************)
\* The last swept edge is a close edge at a week boundary, and no close
\* edge at that ordinal is left.
WeekClosesSwept ==
    /\ pc \in {"place", "days"}
    /\ swept > 0
    /\ arena[edges[swept]].prev # 0
    /\ arena[edges[swept]].gridOrd % 7 = 0
    /\ swept < Len(edges) =>
           \/ arena[edges[swept + 1]].prev = 0
           \/ arena[edges[swept + 1]].gridOrd # arena[edges[swept]].gridOrd

\* The indefinite open edges at the ordinal g.
Continuing(g) ==
    { o \in Opens : arena[o].gridOrd = g /\ ~arena[o].definite }

Starting(g) ==
    { o \in Opens : arena[o].gridOrd = g /\ arena[o].definite }

C15_WeekBoundaryLanes ==
    (AllSpanning /\ AllInRange) =>
        /\ WeekClosesSwept => places = << >>
        /\ pc = "days" =>
               \A g \in { arena[o].gridOrd : o \in Opens } :
                   g % 7 = 0 =>
                       LET n == Cardinality(Continuing(g))
                       IN  /\ { place[o] : o \in Continuing(g) } = 0..(n - 1)
                           /\ \A o1, o2 \in Continuing(g) :
                                  compare(arena[o1].event, arena[o2].event) < 0
                                      => place[o1] < place[o2]
                           /\ \A o \in Starting(g) : place[o] >= n

\* Two events continue over a week boundary, where the later-ending one
\* gets lane 0 and the other lane 1, and a third event starts there on
\* lane 2.
C15_Witness ==
    /\ pc = "days"
    /\ AllSpanning
    /\ AllInRange
    /\ \E g \in { arena[o].gridOrd : o \in Opens } :
           /\ g % 7 = 0
           /\ \E o1, o2 \in Continuing(g) :
                  /\ compare(arena[o1].event, arena[o2].event) < 0
                  /\ place[o1] = 0
                  /\ place[o2] = 1
           /\ \E o \in Starting(g) : place[o] = 2

====
